---- MODULE Spec2Model ----
(***************************************************************************)
(* Deal pipeline of Dashboard/views.py: the Deal table (stage, position,   *)
(* created_by), the handlers deals (POST), deal_detail (DELETE) and        *)
(* move_deal: one request at a time (Spec, SpecOwner, SpecAll), one        *)
(* move_deal request on a pipeline in order (SpecMove), one move_deal      *)
(* request statement by statement (SpecTx), and two move_deal requests in  *)
(* flight at once (SpecConc).                                              *)
(***************************************************************************)
EXTENDS Integers, FiniteSets, Sequences, Bags, TLC

\* ------------------------------------------------------------------ bounds
\* Number of Deal rows ever inserted (ids are never reused).
MaxDeals == 3

\* ------------------------------------------------------------- the tables
Users == {"u1", "u2"}
\* DealStage rows present in the table (a subset of STAGE_CHOICES).
Stages == {"acquisition", "review"}
\* Stage names a request may carry: the rows above and one that has no row.
StageNames == Stages \cup {"bogus"}
DealIds == 1..MaxDeals
\* Ids a request may carry: the ids of the table and one that was never given.
RequestIds == 1..(MaxDeals + 1)
\* Positions a request may name and a statement may write: from one below
\* the first place of a stage to the place after three deals.
Positions == (0 - 1)..3

\* A missing row of the Deal table.
NoDeal == [owner |-> "-", stage |-> "-", position |-> 0]

VARIABLES
    deals,      \* Deal table: id -> row (NoDeal when the id has no row)
    nextId,     \* next auto-increment primary key
    last,       \* the last request served and its response
    req,        \* the move_deal requests followed step by step
    lock,       \* the request inside transaction.atomic(), 0 if none
    snapshot,   \* the committed table while a transaction is open
    base,       \* the committed table when the followed requests arrived
    loan,       \* a UserOwnedProperty row and its remaining_loan_balance
    prop,       \* the Property row (None when there is none)
    valuations, \* its PropertyValuation rows, oldest first
    metrics,    \* its InvestmentMetrics row (None when there is none)
    calc,       \* the last run of calculate_metrics: what the sources gave
    owned,      \* the user's UserOwnedProperty rows: id -> row, None if no row
    transactions, \* the RentalTransaction rows of the user, as a bag
    portfolio,  \* the user's PortfolioMetrics row (None when there is none)
    clock,      \* date.today(), in days
    chart       \* the month windows of the last cash-flow timeline built

vars == <<deals, nextId, last, req, lock, snapshot, base, loan,
          prop, valuations, metrics, calc, owned, transactions, portfolio, clock, chart>>
concVars == <<req, lock, snapshot, base>>
\* The Deal pipeline, and the rows of the metrics and portfolio engine.
dealVars == <<deals, nextId, last, req, lock, snapshot, base>>
portVars == <<owned, transactions, portfolio, clock, chart>>
finVars == <<loan, prop, valuations, metrics, calc, owned, transactions, portfolio, clock, chart>>
metricVars == <<prop, valuations, metrics, calc>>

\* ---------------------------------------------------------------- queries
Rows(db) == {d \in DealIds : db[d] # NoDeal}
\* Deal.objects.filter(stage=stage)
StageDeals(db, s) == {d \in Rows(db) : db[d].stage = s}
\* Deal.objects.filter(stage=stage, created_by=user)
OwnedIn(db, u, s) == {d \in StageDeals(db, s) : db[d].owner = u}
PositionsOf(db, S) == {db[d].position : d \in S}

SetMax(S) == CHOOSE m \in S : \A x \in S : x <= m

\* aggregate(Max('position'))['position__max']: <<>> is None
MaxPosition(db, s) ==
    IF StageDeals(db, s) = {} THEN <<>>
    ELSE <<SetMax(PositionsOf(db, StageDeals(db, s)))>>

\* NewPosition without the "+ 1": the stage's largest position again.
NewPositionSame(m) == IF m = <<>> \/ m[1] = 0 THEN 1 ELSE m[1]

\* position = (max_position or 0) + 1
NewPosition(m) == (IF m = <<>> \/ m[1] = 0 THEN 0 ELSE m[1]) + 1

\* QuerySet.update(position=F('position') + delta) over the rows S
ShiftBy(db, S, delta) ==
    [d \in DealIds |->
        IF d \in S THEN [db[d] EXCEPT !.position = @ + delta] ELSE db[d]]

\* Deal.objects.create(..., stage=stage, created_by=user, position=position)
InsertDeal(db, id, u, s, p) ==
    [db EXCEPT ![id] = [owner |-> u, stage |-> s, position |-> p]]

\* deal.delete()
DeleteDeal(db, d) == [db EXCEPT ![d] = NoDeal]

\* deal.save(): writes every field of the in-memory object
SaveDeal(db, d, row) == [db EXCEPT ![d] = row]

\* ------------------------------------------------------ move_deal's steps
\* ShiftSource with F('position') - 2 in place of F('position') - 1.
ShiftSourceByTwo(db, u, oldStage, oldPos) ==
    ShiftBy(db, {d \in OwnedIn(db, u, oldStage) : db[d].position > oldPos}, 0 - 2)

\* Remove from old stage (shift positions down)
ShiftSource(db, u, oldStage, oldPos) ==
    ShiftBy(db, {d \in OwnedIn(db, u, oldStage) : db[d].position > oldPos}, 0 - 1)

\* ShiftTarget with position__gt in place of position__gte.
ShiftTargetAbove(db, u, ts, t) ==
    ShiftBy(db, {d \in OwnedIn(db, u, ts) : db[d].position > t}, 1)

\* Make room in target stage (shift positions up)
ShiftTarget(db, u, ts, t) ==
    ShiftBy(db, {d \in OwnedIn(db, u, ts) : db[d].position >= t}, 1)

\* ShiftSame with position__lt in place of position__lte when moving down.
ShiftSameShort(db, u, id, ts, oldPos, t) ==
    IF oldPos < t
    THEN ShiftBy(db, {d \in OwnedIn(db, u, ts) \ {id} :
                        db[d].position > oldPos /\ db[d].position < t}, 0 - 1)
    ELSE ShiftBy(db, {d \in OwnedIn(db, u, ts) \ {id} :
                        db[d].position >= t /\ db[d].position < oldPos}, 1)

\* Moving within the same stage: the rows between the old and the new place
ShiftSame(db, u, id, ts, oldPos, t) ==
    IF oldPos < t
    THEN ShiftBy(db, {d \in OwnedIn(db, u, ts) \ {id} :
                        db[d].position > oldPos /\ db[d].position <= t}, 0 - 1)
    ELSE ShiftBy(db, {d \in OwnedIn(db, u, ts) \ {id} :
                        db[d].position >= t /\ db[d].position < oldPos}, 1)

\* The body of "with transaction.atomic()": deal is the object read before it.
MoveTx(db, u, id, deal, ts, t) ==
    IF deal.stage # ts
    THEN SaveDeal(ShiftTarget(ShiftSource(db, u, deal.stage, deal.position), u, ts, t),
                  id, [deal EXCEPT !.stage = ts, !.position = t])
    ELSE IF deal.position # t
    THEN SaveDeal(ShiftSame(db, u, id, ts, deal.position, t),
                  id, [deal EXCEPT !.position = t])
    ELSE db

\* Positions stay inside the modelled range (the cap of the model).
InRange(db) == \A d \in Rows(db) : db[d].position \in Positions

\* --------------------------------------------------------------- responses
\* The request served last and its response.
Response(op, u, d, st) == [op |-> op, user |-> u, deal |-> d, status |-> st]

Procs == {1, 2}

NoRequest == [id |-> 0, user |-> "-", stage |-> "-", pos |-> 0,
              deal |-> NoDeal, pc |-> "idle", dirty |-> FALSE]

EmptyTable == [d \in DealIds |-> NoDeal]

\* None, and a value that is there.
None == <<>>
Some(x) == <<x>>

\* What a property or a method gave: a value (None included) or an exception.
Returned(v) == [raised |-> FALSE, value |-> v]
Raises == [raised |-> TRUE, value |-> None]

\* No UserOwnedProperty row is looked at.
NoLoan == [row |-> None, today |-> None, elapsed |-> None, balance |-> Returned(None)]

\* No UserOwnedProperty row is looked at: the value of loan in the
\* specifications of the pipeline.
LoanIdle == loan = NoLoan

\* No run of calculate_metrics yet.
NoCalc == [predicted |-> Returned(None), fails |-> FALSE, raised |-> FALSE,
           done |-> FALSE]

\* No Property row: the value of the metrics rows in the other specifications.
MetricsIdle ==
    /\ prop = None
    /\ valuations = <<>>
    /\ metrics = None
    /\ calc = NoCalc

\* Most UserOwnedProperty rows the user has at a time.
MaxOwned == 2
OwnedIds == 1..MaxOwned
NoOwned == [i \in OwnedIds |-> None]

\* No owned property, no transaction, no PortfolioMetrics row, no chart built.
PortIdle ==
    /\ owned = NoOwned
    /\ transactions = EmptyBag
    /\ portfolio = None
    /\ clock = 0
    /\ chart = None

\* The metrics and portfolio engine at rest.
FinIdle == LoanIdle /\ MetricsIdle /\ PortIdle

Init ==
    /\ deals = EmptyTable
    /\ nextId = 1
    /\ last = Response("none", "-", 0, 0)
    /\ req = [p \in Procs |-> NoRequest]
    /\ lock = 0
    /\ snapshot = EmptyTable
    /\ base = EmptyTable
    /\ FinIdle

\* ------------------------------------------------ handlers, one at a time
\* deals (POST) without a title, with an unknown stage or an unknown property:
\* what the handler does to the tables and what it answers
CreateRefused(u, s, why) ==
    /\ why \in {"title", "stage", "property"}
    /\ why = "stage" => s \notin Stages
    /\ why = "property" => s \in Stages
    /\ last' = Response("create", u, 0, 400)
    /\ UNCHANGED <<deals, nextId>>
    /\ UNCHANGED finVars

\* deals (POST) without a title, with an unknown stage or an unknown property
CreateRejected(u, s, why) ==
    /\ CreateRefused(u, s, why)
    /\ UNCHANGED concVars

\* deals (POST)
CreateDeal(u, s) ==
    /\ s \in Stages
    /\ nextId <= MaxDeals
    /\ LET p == NewPosition(MaxPosition(deals, s)) IN
        /\ p \in Positions
        /\ deals' = InsertDeal(deals, nextId, u, s, p)
        /\ last' = Response("create", u, nextId, 201)
    /\ nextId' = nextId + 1
    /\ UNCHANGED concVars
    /\ UNCHANGED finVars

\* Deal.objects.get(id=deal_id) without created_by=request.user.
FoundAny(db, u, d) == d \in Rows(db)

\* Deal.objects.get(id=deal_id, created_by=request.user)
Found(db, u, d) == d \in Rows(db) /\ db[d].owner = u

\* deal_detail (DELETE)
DeleteRequest(u, d) ==
    /\ IF Found(deals, u, d)
       THEN /\ deals' = DeleteDeal(deals, d)
            /\ last' = Response("delete", u, d, 200)
       ELSE /\ deals' = deals
            /\ last' = Response("delete", u, 0, 404)
    /\ UNCHANGED nextId
    /\ UNCHANGED concVars
    /\ UNCHANGED finVars

\* move_deal: what the handler does to the tables and what it answers
MoveServed(u, d, ts, t) ==
    /\ IF ~Found(deals, u, d)
       THEN /\ deals' = deals
            /\ last' = Response("move", u, 0, 404)
       ELSE IF ts \notin Stages
       THEN /\ deals' = deals
            /\ last' = Response("move", u, 0, 400)
       ELSE /\ deals' = MoveTx(deals, u, d, deals[d], ts, t)
            /\ InRange(deals')
            /\ last' = Response("move", u, d, 200)
    /\ UNCHANGED nextId
    /\ UNCHANGED finVars

\* move_deal
MoveRequest(u, d, ts, t) ==
    /\ MoveServed(u, d, ts, t)
    /\ UNCHANGED concVars

\* Requests that pass the handlers' lookups.
Next ==
    \/ \E u \in Users, s \in Stages : CreateDeal(u, s)
    \/ \E u \in Users, d \in DealIds : Found(deals, u, d) /\ DeleteRequest(u, d)
    \/ \E u \in Users, d \in DealIds, ts \in Stages, t \in Positions :
            Found(deals, u, d) /\ MoveRequest(u, d, ts, t)

Spec == Init /\ [][Next]_vars

\* The user whose requests SpecOwner and SpecConc follow.
Mover == "u1"

\* One user works the pipeline; the other users only add deals to it.
NextOwner ==
    \/ \E u \in Users, s \in Stages : CreateDeal(u, s)
    \/ \E d \in DealIds : Found(deals, Mover, d) /\ DeleteRequest(Mover, d)
    \/ \E d \in DealIds, ts \in Stages, t \in Positions :
            Found(deals, Mover, d) /\ MoveRequest(Mover, d, ts, t)

SpecOwner == Init /\ [][NextOwner]_vars

\* Any request, the rejected ones included.
NextAll ==
    \/ \E u \in Users, s \in StageNames, why \in {"title", "stage", "property"} :
            CreateRejected(u, s, why)
    \/ \E u \in Users, s \in Stages : CreateDeal(u, s)
    \/ \E u \in Users, d \in RequestIds : DeleteRequest(u, d)
    \/ \E u \in Users, d \in RequestIds, ts \in StageNames, t \in Positions :
            MoveRequest(u, d, ts, t)

SpecAll == Init /\ [][NextAll]_vars

\* ---------------------------------------------- move_deal requests in flight
\* The table as every connection but the one inside the transaction sees it.
Committed == IF lock = 0 THEN deals ELSE snapshot

\* The statements run outside any transaction: what they wrote stays.
RollbackNothing(snap, work) == work

\* Leaving "with transaction.atomic()" by an exception: the statements of the
\* block are undone.
Rollback(snap, work) == snap

Idle == \A p \in Procs : req[p].pc = "idle"

\* Deals are created before the moves arrive.
ConcCreate(u, s) == Idle /\ CreateDeal(u, s)

NewRequest(u, d, ts, t) ==
    [id |-> d, user |-> u, stage |-> ts, pos |-> t,
     deal |-> NoDeal, pc |-> "start", dirty |-> FALSE]

\* One move_deal request reaches the server.
ArriveOne(u, d, ts, t) ==
    /\ Idle
    /\ Found(deals, u, d)
    /\ req' = [req EXCEPT ![1] = NewRequest(u, d, ts, t)]
    /\ base' = deals
    /\ UNCHANGED <<deals, nextId, last, lock, snapshot>>
    /\ UNCHANGED finVars

\* Two move_deal requests of one user reach the server.
Arrive(u, d1, s1, t1, d2, s2, t2) ==
    /\ Idle
    /\ Found(deals, u, d1) /\ Found(deals, u, d2)
    /\ req' = [p \in Procs |-> IF p = 1 THEN NewRequest(u, d1, s1, t1)
                                        ELSE NewRequest(u, d2, s2, t2)]
    /\ base' = deals
    /\ UNCHANGED <<deals, nextId, last, lock, snapshot>>
    /\ UNCHANGED finVars

\* deal = Deal.objects.get(id=deal_id, created_by=request.user), before the block
ReadDeal(p) ==
    /\ req[p].pc = "start"
    /\ req' = [req EXCEPT ![p] =
                IF Found(Committed, req[p].user, req[p].id)
                THEN [req[p] EXCEPT !.deal = Committed[req[p].id], !.pc = "read"]
                ELSE [req[p] EXCEPT !.pc = "notfound"]]
    /\ UNCHANGED <<deals, nextId, last, lock, snapshot, base>>
    /\ UNCHANGED finVars

\* with transaction.atomic():
Begin(p) ==
    /\ req[p].pc = "read"
    /\ lock = 0
    /\ lock' = p
    /\ snapshot' = deals
    /\ req' = [req EXCEPT ![p].pc =
                IF req[p].deal.stage # req[p].stage THEN "cross"
                ELSE IF req[p].deal.position # req[p].pos THEN "same"
                ELSE "saved"]
    /\ UNCHANGED <<deals, nextId, last, base>>
    /\ UNCHANGED finVars

\* first statement of the cross-stage branch
SourceStep(p) ==
    /\ lock = p /\ req[p].pc = "cross"
    /\ deals' = ShiftSource(deals, req[p].user, req[p].deal.stage, req[p].deal.position)
    /\ InRange(deals')
    /\ req' = [req EXCEPT ![p].pc = "src"]
    /\ UNCHANGED <<nextId, last, lock, snapshot, base>>
    /\ UNCHANGED finVars

\* second statement of the cross-stage branch
TargetStep(p) ==
    /\ lock = p /\ req[p].pc = "src"
    /\ deals' = ShiftTarget(deals, req[p].user, req[p].stage, req[p].pos)
    /\ InRange(deals')
    /\ req' = [req EXCEPT ![p].pc = "tgt"]
    /\ UNCHANGED <<nextId, last, lock, snapshot, base>>
    /\ UNCHANGED finVars

\* the shift of the same-stage branch
SameStep(p) ==
    /\ lock = p /\ req[p].pc = "same"
    /\ deals' = ShiftSame(deals, req[p].user, req[p].id, req[p].stage,
                          req[p].deal.position, req[p].pos)
    /\ InRange(deals')
    /\ req' = [req EXCEPT ![p].pc = "shifted"]
    /\ UNCHANGED <<nextId, last, lock, snapshot, base>>
    /\ UNCHANGED finVars

\* deal.stage = target_stage; deal.position = target_position; deal.save()
SaveStep(p) ==
    /\ lock = p /\ req[p].pc \in {"tgt", "shifted"}
    /\ deals' = SaveDeal(deals, req[p].id,
                         [req[p].deal EXCEPT !.stage = req[p].stage,
                                              !.position = req[p].pos])
    /\ req' = [req EXCEPT ![p].pc = "saved"]
    /\ UNCHANGED <<nextId, last, lock, snapshot, base>>
    /\ UNCHANGED finVars

\* the block ends: commit
Commit(p) ==
    /\ lock = p /\ req[p].pc = "saved"
    /\ lock' = 0
    /\ req' = [req EXCEPT ![p].pc = "done"]
    /\ UNCHANGED <<deals, nextId, last, snapshot, base>>
    /\ UNCHANGED finVars

\* a statement of the block raises (the database refuses it)
Fail(p) ==
    /\ lock = p /\ req[p].pc \in {"cross", "src", "tgt", "same", "shifted"}
    /\ deals' = Rollback(snapshot, deals)
    /\ lock' = 0
    /\ req' = [req EXCEPT ![p].pc = "failed", ![p].dirty = (deals # snapshot)]
    /\ UNCHANGED <<nextId, last, snapshot, base>>
    /\ UNCHANGED finVars

\* ------------------------------------------ one move on a pipeline in order
\* The owner's deals of a stage sit at 0, 1, ..., count-1.
Contiguous(db, u, s) ==
    PositionsOf(db, OwnedIn(db, u, s)) = 0..(Cardinality(OwnedIn(db, u, s)) - 1)

OrderedRows == [owner : Users, stage : Stages, position : 0..(MaxDeals - 1)]

\* The tables in which every stage of every owner is in order. Each is one the
\* handlers reach: create the deals one by one and move each to its place.
OrderedTables ==
    {T \in [DealIds -> OrderedRows \cup {NoDeal}] :
        \A u \in Users, s \in Stages : Contiguous(T, u, s)}

InitMove ==
    /\ deals \in OrderedTables
    /\ nextId = MaxDeals + 1
    /\ last = Response("none", "-", 0, 0)
    /\ req = [p \in Procs |-> NoRequest]
    /\ lock = 0
    /\ snapshot = EmptyTable
    /\ base = EmptyTable
    /\ FinIdle

\* move_deal served whole, the request and the table it found kept.
MoveObserved(u, d, ts, t) ==
    /\ Idle
    /\ Found(deals, u, d)
    /\ ts \in Stages
    /\ deals' = MoveTx(deals, u, d, deals[d], ts, t)
    /\ last' = Response("move", u, d, 200)
    /\ req' = [req EXCEPT ![1] = [NewRequest(u, d, ts, t) EXCEPT
                                    !.deal = deals[d], !.pc = "done"]]
    /\ base' = deals
    /\ UNCHANGED <<nextId, lock, snapshot>>
    /\ UNCHANGED finVars

NextMove ==
    \E u \in Users, d \in DealIds, ts \in Stages, t \in Positions :
        MoveObserved(u, d, ts, t)

SpecMove == InitMove /\ [][NextMove]_vars

\* ------------------------------------- one request, whatever it names, kept
\* move_deal with any deal id and stage name, the request and the table it
\* found kept.
MoveAnswered(u, d, ts, t) ==
    /\ Idle
    /\ MoveServed(u, d, ts, t)
    /\ req' = [req EXCEPT ![1] = [NewRequest(u, d, ts, t) EXCEPT !.pc = "answered"]]
    /\ base' = deals
    /\ UNCHANGED <<lock, snapshot>>

\* a refused deals (POST), the request and the table it found kept.
CreateAnswered(u, s, why) ==
    /\ Idle
    /\ CreateRefused(u, s, why)
    /\ req' = [req EXCEPT ![1] = [NewRequest(u, 0, s, 0) EXCEPT !.pc = why]]
    /\ base' = deals
    /\ UNCHANGED <<lock, snapshot>>

NextAnswer ==
    \/ \E u \in Users, d \in RequestIds, ts \in StageNames, t \in Positions :
            MoveAnswered(u, d, ts, t)
    \/ \E u \in Users, s \in StageNames, why \in {"title", "stage", "property"} :
            CreateAnswered(u, s, why)

SpecAnswer == InitMove /\ [][NextAnswer]_vars

\* ------------------------------------ one move_deal, statement by statement
\* One move_deal request, statement by statement.
NextTx ==
    \/ \E u \in Users, s \in Stages : ConcCreate(u, s)
    \/ \E u \in Users, d \in DealIds, ts \in Stages, t \in Positions :
            ArriveOne(u, d, ts, t)
    \/ ReadDeal(1)
    \/ Begin(1)
    \/ SourceStep(1)
    \/ TargetStep(1)
    \/ SameStep(1)
    \/ SaveStep(1)
    \/ Commit(1)
    \/ Fail(1)

SpecTx == Init /\ [][NextTx]_vars

\* The whole block of one request, run while no other block runs (the
\* database serialises the two transactions).
RunTx(p) ==
    /\ req[p].pc = "read"
    /\ deals' = MoveTx(deals, req[p].user, req[p].id, req[p].deal,
                       req[p].stage, req[p].pos)
    /\ InRange(deals')
    /\ req' = [req EXCEPT ![p].pc = "done"]
    /\ UNCHANGED <<nextId, last, lock, snapshot, base>>
    /\ UNCHANGED finVars

\* Two move_deal requests of one user in flight at once.
NextConc ==
    \/ \E s \in Stages : ConcCreate(Mover, s)
    \/ \E d1, d2 \in DealIds, s1, s2 \in Stages, t1, t2 \in Positions :
            Arrive(Mover, d1, s1, t1, d2, s2, t2)
    \/ \E p \in Procs : ReadDeal(p)
    \/ \E p \in Procs : RunTx(p)

SpecConc == Init /\ [][NextConc]_vars

\* ------------------------------- every served move, with the table it found
\* move_deal served whole on the table the earlier requests left, the
\* request and the table it found kept.
MoveKept(u, d, ts, t) ==
    /\ Found(deals, u, d)
    /\ ts \in Stages
    /\ MoveServed(u, d, ts, t)
    /\ req' = [req EXCEPT ![1] = [NewRequest(u, d, ts, t) EXCEPT
                                    !.deal = deals[d], !.pc = "done"]]
    /\ base' = deals
    /\ UNCHANGED <<lock, snapshot>>

\* One user works the pipeline and the other users add deals to it, as in
\* NextOwner.
NextFrame ==
    \/ \E u \in Users, s \in Stages : CreateDeal(u, s)
    \/ \E d \in DealIds : Found(deals, Mover, d) /\ DeleteRequest(Mover, d)
    \/ \E d \in DealIds, ts \in Stages, t \in Positions : MoveKept(Mover, d, ts, t)

SpecFrame == Init /\ [][NextFrame]_vars

\* ------------------------------------ deals (POST), statement by statement
\* The handler runs outside any transaction and takes no lock: each worker
\* serves its request statement by statement beside the other one.
Serving(p) == req[p].pc \in {"posted", "counted"}

\* A deals (POST) request with a title and a known stage reaches worker p.
PostDeal(p, u, s) ==
    /\ ~Serving(p)
    /\ s \in Stages
    /\ Cardinality(Rows(deals)) + Cardinality({q \in Procs : Serving(q)}) < MaxDeals
    /\ req' = [req EXCEPT ![p] = [NewRequest(u, 0, s, 0) EXCEPT !.pc = "posted"]]
    /\ UNCHANGED <<deals, nextId, last, lock, snapshot, base>>
    /\ UNCHANGED finVars

\* max_position = ...aggregate(Max('position')); position = (max_position or 0) + 1
ReadMax(p) ==
    /\ req[p].pc = "posted"
    /\ req' = [req EXCEPT ![p].pos = NewPosition(MaxPosition(deals, req[p].stage)),
                          ![p].pc = "counted"]
    /\ UNCHANGED <<deals, nextId, last, lock, snapshot, base>>
    /\ UNCHANGED finVars

\* Deal.objects.create(..., position=position) and the 201 response
CreateRow(p) ==
    /\ req[p].pc = "counted"
    /\ req[p].pos \in Positions
    /\ deals' = InsertDeal(deals, nextId, req[p].user, req[p].stage, req[p].pos)
    /\ nextId' = nextId + 1
    /\ last' = Response("create", req[p].user, nextId, 201)
    /\ req' = [req EXCEPT ![p].id = nextId, ![p].pc = "created"]
    /\ UNCHANGED <<lock, snapshot, base>>
    /\ UNCHANGED finVars

\* Two workers serve deals (POST) requests at once.
NextPost ==
    \/ \E p \in Procs, u \in Users, s \in Stages : PostDeal(p, u, s)
    \/ \E p \in Procs : ReadMax(p)
    \/ \E p \in Procs : CreateRow(p)

SpecPost == Init /\ [][NextPost]_vars

\* ================================================= remaining_loan_balance
\* Longest loan term drawn, in years.
MaxTermYears == 1

Min2(a, b) == IF a < b THEN a ELSE b
Max2(a, b) == IF a > b THEN a ELSE b

\* bool(v) of a Decimal, an int or None: None and zero are false
Truthy(v) == v # None /\ v[1] # 0

\* loan_amount and the balance in cents; interest_rate in thousandths of a
\* percent (decimal_places=3); loan_term_years in years.
LoanAmounts == {None, Some(0), Some(120000), Some(100000)}
InterestRates == {None, Some(0), Some(6000), Some(12000)}
LoanTerms == {None} \cup {Some(y) : y \in 0..MaxTermYears}
\* purchase_date and date.today(), of which only year and month are read
LoanDates == [year : 2024..(2025 + MaxTermYears), month : {1, 6, 12}]

LoanRows == [loan_amount : LoanAmounts, interest_rate : InterestRates,
             loan_term_years : LoanTerms, purchase_date : LoanDates]

\* The float arithmetic of the balance, carried to four decimal places.
One == 100 * 100
FixMul(a, b) == (a * b) \div One
RECURSIVE FixPow(_, _)
FixPow(q, n) == IF n = 0 THEN One ELSE FixMul(FixPow(q, n - 1), q)
\* round(x, 2) of the quotient a / b, in cents
RoundDiv(a, b) == (2 * a + b) \div (2 * b)

\* return 0 where the property returns None.
ZeroBalance == Returned(Some(0))

\* return None
NoBalance == Returned(None)

\* not all([self.loan_amount, self.interest_rate, self.loan_term_years])
AllTruthy(row) ==
    Truthy(row.loan_amount) /\ Truthy(row.interest_rate) /\ Truthy(row.loan_term_years)

\* (today.year - purchase.year) * 12 + (today.month - purchase.month)
MonthsBetween(purchase, today) ==
    (today.year - purchase.year) * 12 + (today.month - purchase.month)

\* months_elapsed = max(0, min(months_elapsed, total_payments))
months_elapsed(row, today) ==
    Max2(0, Min2(MonthsBetween(row.purchase_date, today), row.loan_term_years[1] * 12))

\* UserOwnedProperty.remaining_loan_balance, evaluated on the day today
remaining_loan_balance(row, today) ==
    IF ~AllTruthy(row) THEN NoBalance
    ELSE
    LET rate == row.interest_rate[1]
        monthly_rate == (rate * One) \div (1000 * 100 * 12)
        total_payments == row.loan_term_years[1] * 12
        growth == FixPow(One + monthly_rate, total_payments)
        monthly_payment ==
            IF rate = 0 THEN row.loan_amount[1] \div total_payments
            ELSE (row.loan_amount[1] * FixMul(monthly_rate, growth)) \div (growth - One)
        elapsed == months_elapsed(row, today)
        remaining_payments == total_payments - elapsed
        left == FixPow(One + monthly_rate, remaining_payments)
    IN  IF elapsed >= total_payments THEN Returned(Some(0))
        \* monthly_rate * (1 + monthly_rate)**remaining_payments is 0.0
        ELSE IF rate = 0 THEN Raises
        ELSE Returned(Some(RoundDiv(monthly_payment * (left - One),
                                    FixMul(monthly_rate, left))))

DealsIdle ==
    /\ deals = EmptyTable
    /\ nextId = 1
    /\ last = Response("none", "-", 0, 0)
    /\ req = [p \in Procs |-> NoRequest]
    /\ lock = 0
    /\ snapshot = EmptyTable
    /\ base = EmptyTable

\* A UserOwnedProperty row as the portfolio views store it.
InitLoan ==
    /\ DealsIdle
    /\ loan \in {[NoLoan EXCEPT !.row = Some(r)] : r \in LoanRows}
    /\ MetricsIdle
    /\ PortIdle

\* The balance is read on some day.
ReadBalance(today) ==
    /\ loan.row # None
    /\ loan' = [loan EXCEPT
                    !.today = Some(today),
                    !.elapsed = IF AllTruthy(loan.row[1])
                                THEN Some(months_elapsed(loan.row[1], today))
                                ELSE None,
                    !.balance = remaining_loan_balance(loan.row[1], today)]
    /\ UNCHANGED dealVars
    /\ UNCHANGED metricVars
    /\ UNCHANGED portVars

NextLoan == \E today \in LoanDates : ReadBalance(today)

SpecLoan == InitLoan /\ [][NextLoan]_vars

\* ===================================== InvestmentMetrics.calculate_metrics
\* Decimal and float values as exact fractions n/d, d > 0, in lowest terms.
Abs(x) == IF x < 0 THEN 0 - x ELSE x
RECURSIVE Gcd(_, _)
Gcd(a, b) == IF b = 0 THEN a ELSE Gcd(b, a % b)
Rat(n, d) ==
    LET g == Gcd(Abs(n), Abs(d))
        sg == IF d < 0 THEN 0 - 1 ELSE 1
    IN  [n |-> (sg * n) \div g, d |-> (sg * d) \div g]
RInt(k) == [n |-> k, d |-> 1]
RAdd(a, b) == Rat(a.n * b.d + b.n * a.d, a.d * b.d)
RSub(a, b) == Rat(a.n * b.d - b.n * a.d, a.d * b.d)
\* the factors are cancelled crosswise before they are multiplied
RMul(a, b) ==
    LET x == Rat(a.n, b.d)
        y == Rat(b.n, a.d)
    IN  [n |-> x.n * y.n, d |-> x.d * y.d]
RDiv(a, b) == RMul(a, Rat(b.d, b.n))
RLess(a, b) == a.n * b.d < b.n * a.d
RLeq(a, b) == a.n * b.d <= b.n * a.d
RMin(a, b) == IF RLess(b, a) THEN b ELSE a
RMax(a, b) == IF RLess(a, b) THEN b ELSE a
\* min(hi, max(lo, x))
Clamp(lo, x, hi) == RMin(RInt(hi), RMax(RInt(lo), x))

\* bool(v) of a Decimal or None held as a fraction
TruthyR(v) == v # None /\ v[1].n # 0

\* The fields of InvestmentMetrics that calculate_metrics writes.
MetricFields == {"gross_rental_yield", "net_operating_income", "cap_rate", "roi",
                 "estimated_profit", "price_to_rent_ratio", "risk_score",
                 "investment_score"}

\* The row InvestmentMetrics.objects.get_or_create makes: every field null.
BlankMetrics == [f \in MetricFields |-> None]

\* The qualifying valuations of a property, oldest first in vals:
\* filter(valuation_successful=True, five_year_roi_percent__isnull=False)
Qualifying(vals) ==
    {i \in 1..Len(vals) : vals[i].valuation_successful
                            /\ vals[i].five_year_roi_percent # None}

\* .order_by('-created_at').first()
LatestValuation(vals) == vals[SetMax(Qualifying(vals))]

\* InvestmentMetrics._get_ai_valuation_roi; fails is the query raising
get_ai_valuation_roi(vals, fails) ==
    IF fails \/ Qualifying(vals) = {} THEN None
    ELSE IF Truthy(LatestValuation(vals).five_year_roi_percent)
    THEN Some(Rat(LatestValuation(vals).five_year_roi_percent[1], 5))
    ELSE None

\* InvestmentMetrics._get_ai_predicted_profit; predicted is what the
\* OpenAIProfitPredictor gave: a value, None, or an exception
get_ai_predicted_profit(predicted) ==
    IF predicted.raised \/ predicted.value = None THEN None
    ELSE Some(RInt(predicted.value[1]))

\* float(self.cap_rate) * 10 without min(100, max(0, ...)).
CapRateScoreUnclamped(cap) == RMul(cap, RInt(10))

\* cap_rate_score = min(100, max(0, float(self.cap_rate) * 10))
CapRateScore(cap) == Clamp(0, RMul(cap, RInt(10)), 100)

\* score_components: the weighted components, None where the "if" is false
ScoreComponents(m, p) ==
    [cap_rate |->
        IF TruthyR(m.cap_rate)
        THEN Some(RMul(CapRateScore(m.cap_rate[1]), Rat(40, 100)))
        ELSE None,
     cashflow |->
        IF TruthyR(m.net_operating_income) /\ Truthy(p.current_price)
        THEN Some(RMul(Clamp(0, RDiv(RDiv(m.net_operating_income[1], RInt(12)),
                                     RInt(100)), 100), Rat(25, 100)))
        ELSE None,
     appreciation |->
        IF TruthyR(m.estimated_profit) /\ Truthy(p.current_price)
        THEN Some(RMul(Clamp(0, RMul(RMul(RDiv(m.estimated_profit[1],
                                                 RInt(p.current_price[1])),
                                            RInt(100)), RInt(2)), 100),
                       Rat(20, 100)))
        ELSE None,
     efficiency |->
        IF TruthyR(m.price_to_rent_ratio)
        THEN Some(RMul(Clamp(0, RSub(RInt(200), RMul(m.price_to_rent_ratio[1],
                                                      RInt(10))), 100),
                       Rat(10, 100)))
        ELSE None,
     risk |->
        IF TruthyR(m.risk_score)
        THEN Some(RMul(RMul(RSub(RInt(10), m.risk_score[1]), RInt(10)), Rat(5, 100)))
        ELSE None]

ComponentNames == {"cap_rate", "cashflow", "appreciation", "efficiency", "risk"}
Present(c) == {k \in ComponentNames : c[k] # None}

RECURSIVE SumOver(_, _)
SumOver(c, K) ==
    IF K = {} THEN RInt(0)
    ELSE LET k == CHOOSE x \in K : TRUE IN RAdd(c[k][1], SumOver(c, K \ {k}))

\* The sum divided by the weights that are there.
FinalScoreRenormalised(c) ==
    IF Present(c) # {}
    THEN Some(RDiv(SumOver(c, Present(c)),
                   SumOver([cap_rate |-> Some(Rat(40, 100)), cashflow |-> Some(Rat(25, 100)),
                            appreciation |-> Some(Rat(20, 100)),
                            efficiency |-> Some(Rat(10, 100)),
                            risk |-> Some(Rat(5, 100))], Present(c))))
    ELSE Some(RInt(0))

\* sum(score_components.values()) if score_components else 0
FinalScore(c) ==
    IF Present(c) # {} THEN Some(SumOver(c, Present(c))) ELSE Some(RInt(0))

\* "not self.property_ref.current_price" alone.
MissingPrice(p) == ~Truthy(p.current_price)

\* not self.property_ref.current_price or not self.property_ref.estimated_rent
MissingInput(p) == ~Truthy(p.current_price) \/ ~Truthy(p.estimated_rent)

\* current_price - estimated_value.
ProfitFallbackSwapped(p) == RInt(p.current_price[1] - p.estimated_value[1])

\* self.property_ref.estimated_value - self.property_ref.current_price
ProfitFallback(p) == RInt(p.estimated_value[1] - p.current_price[1])

\* The element of a set of one element.
The(S) == CHOOSE x \in S : TRUE

\* The figures that come from price and rent alone.
Basics(p) ==
    LET price == RInt(p.current_price[1])
        annual_rent == RInt(p.estimated_rent[1] * 12)
        operating_expenses == RMul(annual_rent, Rat(30, 100))
    IN  [price |-> price,
         annual_rent |-> annual_rent,
         net_operating_income |-> RSub(annual_rent, operating_expenses),
         price_to_rent_ratio |-> RDiv(price, annual_rent)]

\* (current_price / net_operating_income) * 100.
CapRateInverted(b) == RMul(RDiv(b.price, b.net_operating_income), RInt(100))

\* self.cap_rate = (self.net_operating_income / current_price) * 100
CapRate(b) == RMul(RDiv(b.net_operating_income, b.price), RInt(100))

\* The fields calculate_metrics assigns before the score, from the figures b.
Assigned(m, p, vals, predicted, fails, b) ==
    LET ai_roi == get_ai_valuation_roi(vals, fails)
        ai_predicted_profit == get_ai_predicted_profit(predicted)
    IN  [gross_rental_yield |-> Some(RMul(RDiv(b.annual_rent, b.price), RInt(100))),
         net_operating_income |-> Some(b.net_operating_income),
         cap_rate |-> Some(CapRate(b)),
         roi |-> IF ai_roi # None THEN ai_roi
                 ELSE IF b.net_operating_income.n # 0
                 THEN Some(RMul(RDiv(b.net_operating_income, b.price), RInt(100)))
                 ELSE m.roi,
         estimated_profit |->
                 IF ai_predicted_profit # None THEN ai_predicted_profit
                 ELSE IF Truthy(p.estimated_value) /\ Truthy(p.current_price)
                 THEN Some(ProfitFallback(p))
                 ELSE m.estimated_profit,
         price_to_rent_ratio |-> Some(b.price_to_rent_ratio),
         risk_score |->
                 IF b.price_to_rent_ratio.n # 0
                 THEN Some(Clamp(1, RDiv(b.price_to_rent_ratio, RInt(10)), 10))
                 ELSE m.risk_score,
         investment_score |-> m.investment_score]

\* self.investment_score = ...; self.save()
Scored(m, p) == [m EXCEPT !.investment_score = FinalScore(ScoreComponents(m, p))]

\* InvestmentMetrics.calculate_metrics on the row m of the property p with
\* the valuations vals; predicted is what the profit predictor gave and fails
\* is the valuation query raising. Gives the row saved, or raises.
calculate_metrics(m, p, vals, predicted, fails) ==
    IF MissingInput(p) THEN Returned(m)
    \* None * 12, or the division by an annual rent or a price of 0
    ELSE IF ~Truthy(p.estimated_rent) \/ ~Truthy(p.current_price) THEN Raises
    ELSE The({Returned(Scored(m1, p)) :
                m1 \in {Assigned(m, p, vals, predicted, fails, b) : b \in {Basics(p)}}})

\* ------------------------------------------------------------ the inputs
\* Longest list of PropertyValuation rows of the property.
MaxValuations == 2

\* current_price, estimated_rent and estimated_value in dollars
Prices == {None, Some(200000), Some(1200000)}
Rents == {None, Some(2000), Some(20000)}
Values == {None, Some(0), Some(250000), Some(1800000)}
PropertyRows == [current_price : Prices, estimated_rent : Rents,
                 estimated_value : Values]

\* five_year_roi_percent, in percent
FiveYearRois == {None, Some(0), Some(25)}
\* A valuation that failed keeps valuation_successful=False and no figure.
FailedValuation == [valuation_successful |-> FALSE, five_year_roi_percent |-> None]
ValuationRows ==
    {FailedValuation} \cup
    [valuation_successful : {TRUE}, five_year_roi_percent : FiveYearRois]
ValuationLists ==
    UNION {[1..n -> ValuationRows] : n \in 0..MaxValuations}

\* What OpenAIProfitPredictor gives: no key or no answer, an answer that
\* cannot be read, or a profit in dollars.
Predictions ==
    {Raises, Returned(None), Returned(Some(0)), Returned(Some(50000)),
     Returned(Some(0 - 10000))}

\* The row get_or_create gives: the one there is, or a new one.
get_or_create(row) == IF row = None THEN BlankMetrics ELSE row[1]

\* The row in the table after calculate_metrics gave r on the row m: the one
\* saved, or m as it was when calculate_metrics raised before self.save().
RowAfter(m, r) == IF r.raised THEN Some(m) ELSE Some(r.value)

\* What the sources gave in a run and whether the run raised.
RunOf(r, predicted, fails) ==
    [predicted |-> predicted, fails |-> fails, raised |-> r.raised, done |-> TRUE]

\* A Property row, its valuations, and no InvestmentMetrics row yet.
InitCalc ==
    /\ DealsIdle
    /\ LoanIdle
    /\ prop \in {Some(r) : r \in PropertyRows}
    /\ valuations \in ValuationLists
    /\ metrics = None
    /\ calc = NoCalc
    /\ PortIdle

\* calculate_investment_metrics(property_obj)
Calculate(predicted, fails) ==
    /\ prop # None
    /\ \E r \in {calculate_metrics(get_or_create(metrics), prop[1], valuations,
                                    predicted, fails)} :
            /\ metrics' = RowAfter(get_or_create(metrics), r)
            /\ calc' = RunOf(r, predicted, fails)
    /\ UNCHANGED <<prop, valuations, loan>>
    /\ UNCHANGED portVars
    /\ UNCHANGED dealVars

NextCalc == \E predicted \in Predictions, fails \in BOOLEAN : Calculate(predicted, fails)

SpecCalc == InitCalc /\ [][NextCalc]_vars

\* ------------------------------------- syncs, valuations, recomputations
\* What ATTOM gives for the property: sale.amount.saleAmt and
\* assessment.market.mktTtlValue, in dollars, or nothing.
SyncPrices == {None, Some(200000), Some(1200000)}
SyncValues == {None, Some(250000)}

\* What the profit predictor gives during a sync: nothing, or a profit.
SyncPredictions == {Raises, Returned(Some(50000))}

\* x or y
Or(x, y) == IF Truthy(x) THEN x ELSE y

\* estimated_rent = price_for_rent * rent_ratio, with the base ratio 0.01
EstimatedRent(price, value) ==
    IF Truthy(Or(price, value)) THEN Some(Or(price, value)[1] \div 100) ELSE None

\* _sync_attom_property: Property.objects.get_or_create with the figures as
\* defaults, and "figure or the stored one" for a property that was there
SyncedProperty(row, price, value) ==
    IF row = None
    THEN [current_price |-> price, estimated_rent |-> EstimatedRent(price, value),
          estimated_value |-> value]
    ELSE [current_price |-> Or(price, row[1].current_price),
          estimated_rent |-> Or(EstimatedRent(price, value), row[1].estimated_rent),
          estimated_value |-> Or(value, row[1].estimated_value)]

InitSync ==
    /\ DealsIdle
    /\ LoanIdle
    /\ MetricsIdle
    /\ PortIdle

\* sync_properties_by_location for the property: _sync_attom_property, which
\* ends with calculate_investment_metrics, and calculate_investment_metrics
\* once more; first and second are what the profit predictor gave each time.
Sync(price, value, first, second) ==
    /\ \E p \in {SyncedProperty(prop, price, value)} :
       \E m2 \in {RowAfter(get_or_create(metrics),
                            calculate_metrics(get_or_create(metrics), p, valuations,
                                              first, FALSE))[1]} :
       \E r2 \in {calculate_metrics(m2, p, valuations, second, FALSE)} :
            /\ prop' = Some(p)
            /\ metrics' = RowAfter(m2, r2)
            /\ calc' = RunOf(r2, second, FALSE)
    /\ UNCHANGED <<valuations, loan>>
    /\ UNCHANGED portVars
    /\ UNCHANGED dealVars

\* PropertyValuationService.get_property_valuation: the row is created, and
\* when the valuation succeeds it is filled and the metrics are recalculated
\* (an exception of the recalculation is caught and logged).
Valuate(ok, roi, predicted, fails) ==
    /\ prop # None
    /\ Len(valuations) < MaxValuations
    /\ IF ok
       THEN \E vals \in {Append(valuations, [valuation_successful |-> TRUE,
                                               five_year_roi_percent |-> roi])} :
            \E r \in {calculate_metrics(get_or_create(metrics), prop[1], vals,
                                         predicted, fails)} :
                /\ valuations' = vals
                /\ metrics' = RowAfter(get_or_create(metrics), r)
                /\ calc' = RunOf(r, predicted, fails)
       ELSE /\ valuations' = Append(valuations, FailedValuation)
            /\ UNCHANGED <<metrics, calc>>
    /\ UNCHANGED <<prop, loan>>
    /\ UNCHANGED portVars
    /\ UNCHANGED dealVars

NextSync ==
    \/ \E price \in SyncPrices, value \in SyncValues, first, second \in SyncPredictions :
            Sync(price, value, first, second)
    \/ \E ok \in BOOLEAN, roi \in FiveYearRois, predicted \in Predictions,
          fails \in BOOLEAN : Valuate(ok, roi, predicted, fails)
    \/ \E predicted \in Predictions, fails \in BOOLEAN : Calculate(predicted, fails)

SpecSync == InitSync /\ [][NextSync]_vars

\* ====================================== PortfolioMetrics.calculate_metrics
\* Money is in cents. Most transactions the user has added by hand at a time,
\* and the last day drawn (day 0 is the day of the first request).
MaxTransactions == 1
MaxDay == 1

\* The days drawn all lie in January 2025: the month the loan balance reads.
MonthOf(day) == [year |-> 2025, month |-> 1]

\* The fields of a UserOwnedProperty row that the portfolio reads.
PurchasePrices == {Some(200000)}
EstimatedValues == {None, Some(250000)}
\* A property bought for cash, and one with a loan taken in June 2024.
Financings ==
    {[down_payment |-> None, loan_amount |-> None, interest_rate |-> None,
      loan_term_years |-> None],
     [down_payment |-> Some(80000), loan_amount |-> Some(120000),
      interest_rate |-> Some(6000), loan_term_years |-> Some(1)]}
\* custom_property_type and custom_city
Places == {[custom_property_type |-> "condo", custom_city |-> "Austin"]}

OwnedRow(price, value, f, place) ==
    [purchase_price |-> price, current_estimated_value |-> value,
     down_payment |-> f.down_payment, loan_amount |-> f.loan_amount,
     interest_rate |-> f.interest_rate, loan_term_years |-> f.loan_term_years,
     purchase_date |-> [year |-> 2024, month |-> 6],
     custom_property_type |-> place.custom_property_type,
     custom_city |-> place.custom_city]

OwnedRows ==
    {OwnedRow(price, value, f, place) :
        price \in PurchasePrices, value \in EstimatedValues,
        f \in Financings, place \in Places}

\* The ids of the rows of UserOwnedProperty.objects.filter(user=self.user)
OwnedOf(o) == {i \in OwnedIds : o[i] # None}

\* sum(f[x] for x in S)
RECURSIVE SumFn(_, _)
SumFn(f, S) ==
    IF S = {} THEN 0
    ELSE LET x == CHOOSE y \in S : TRUE IN f[x] + SumFn(f, S \ {x})

\* The balance of the loan on the day; remaining_loan_balance does not raise
\* on a row that passes its first test with a rate other than 0.
BalanceOn(row, day) == remaining_loan_balance(row, MonthOf(day)).value

\* UserOwnedProperty.current_equity
current_equity(row, day) ==
    IF ~Truthy(row.current_estimated_value) THEN None
    ELSE Some(row.current_estimated_value[1]
              - (IF BalanceOn(row, day) = None THEN 0 ELSE BalanceOn(row, day)[1]))

\* current_value = prop.current_estimated_value or prop.purchase_price
CurrentValue(row) == Or(row.current_estimated_value, row.purchase_price)[1]

\* equity if equity else current_value
EquityOf(row, day) ==
    IF Truthy(current_equity(row, day)) THEN current_equity(row, day)[1]
    ELSE CurrentValue(row)

\* date__gte=one_year_ago, with one_year_ago = date.today() - timedelta(days=365)
InWindow(t, day) == t.date >= day - 365

\* sum(transaction.amount ...) over the transactions of the type in the window
Recent(txs, type, day) ==
    LET S == {t \in BagToSet(txs) : t.transaction_type = type /\ InWindow(t, day)}
    IN  SumFn([t \in S |-> CopiesIn(t, txs) * t.amount], S)

\* The numeric fields of PortfolioMetrics, and calculated_at (auto_now).
PortfolioFields ==
    {"total_properties", "total_investment", "total_equity", "total_monthly_income",
     "total_monthly_expenses", "portfolio_value", "total_appreciation",
     "appreciation_percentage", "monthly_cash_flow", "annual_cash_flow",
     "cash_on_cash_return", "total_return_percentage", "portfolio_cap_rate",
     "diversification_score"}

\* The row PortfolioMetrics.objects.get_or_create makes: default=0 everywhere.
BlankPortfolio == [f \in PortfolioFields \cup {"calculated_at"} |-> RInt(0)]

\* The row get_or_create gives: the one there is, or a new one.
PortfolioRow(row) == IF row = None THEN BlankPortfolio ELSE row[1]

\* The sums calculate_metrics takes over the owned properties o and the
\* transactions txs on the day.
Totals(o, txs, day) ==
    LET ids == OwnedOf(o)
        P(i) == o[i][1]
        paid == {i \in ids : Truthy(P(i).down_payment)}
    IN  [total_properties |-> Cardinality(ids),
         total_investment |-> SumFn([i \in ids |-> P(i).purchase_price[1]], ids),
         portfolio_value |-> SumFn([i \in ids |-> CurrentValue(P(i))], ids),
         total_equity |-> SumFn([i \in ids |-> EquityOf(P(i), day)], ids),
         recent_income |-> Recent(txs, "income", day),
         recent_expenses |-> Recent(txs, "expense", day),
         down_payments |-> SumFn([i \in paid |-> P(i).down_payment[1]], paid),
         property_types |-> {P(i).custom_property_type : i \in ids} \ {""},
         cities |-> {P(i).custom_city : i \in ids} \ {""}]

\* The row calculate_metrics saves from the sums t: a field whose "if" is
\* false is not assigned and keeps what the row m held.
Saved(m, t, day) ==
    LET total_appreciation == t.portfolio_value - t.total_investment
        annual_cash_flow == t.recent_income - t.recent_expenses
        total_down_payments ==
            IF t.down_payments # 0 THEN t.down_payments ELSE t.total_investment
    IN  [total_properties |-> RInt(t.total_properties),
         total_investment |-> RInt(t.total_investment),
         portfolio_value |-> RInt(t.portfolio_value),
         total_equity |-> RInt(t.total_equity),
         total_appreciation |->
            IF t.total_investment > 0 THEN RInt(total_appreciation)
            ELSE m.total_appreciation,
         appreciation_percentage |->
            IF t.total_investment > 0
            THEN RMul(Rat(total_appreciation, t.total_investment), RInt(100))
            ELSE m.appreciation_percentage,
         annual_cash_flow |-> RInt(annual_cash_flow),
         monthly_cash_flow |-> Rat(annual_cash_flow, 12),
         total_monthly_income |-> Rat(t.recent_income, 12),
         total_monthly_expenses |-> Rat(t.recent_expenses, 12),
         cash_on_cash_return |->
            IF total_down_payments > 0
            THEN RMul(Rat(annual_cash_flow, total_down_payments), RInt(100))
            ELSE m.cash_on_cash_return,
         total_return_percentage |->
            IF t.total_investment > 0
            THEN RMul(Rat(total_appreciation + annual_cash_flow, t.total_investment),
                      RInt(100))
            ELSE m.total_return_percentage,
         portfolio_cap_rate |->
            IF t.portfolio_value > 0
            THEN RMul(Rat(annual_cash_flow, t.portfolio_value), RInt(100))
            ELSE m.portfolio_cap_rate,
         diversification_score |->
            RInt(Min2(Cardinality(t.property_types), 5) + Min2(Cardinality(t.cities), 5)),
         calculated_at |-> RInt(day)]

\* PortfolioMetrics.calculate_metrics on the row m, for the owned properties
\* o and the transactions txs, on the day: the row saved.
PortfolioCalc(m, o, txs, day) ==
    The({Saved(m, t, day) : t \in {Totals(o, txs, day)}})

\* get_or_create(user=request.user) and calculate_metrics(), which ends with
\* self.save(): the PortfolioMetrics row after a view recomputed it.
Recomputed(o, txs) == Some(PortfolioCalc(PortfolioRow(portfolio), o, txs, clock))

\* ---------------------------------------------------- the portfolio views
\* monthly_rent of the request: left out.
MonthlyRents == {None}

\* What generate_realistic_rental_data_with_ai gives: the fallback estimate
\* after OpenAI failed, or an answer without a rent and without expenses.
AiOutcomes == {"fallback", "empty"}

\* The fallback estimate: 1% of the purchase price when no rent is given,
\* expenses of 40% of the rent split by category, management 8% of the rent.
FallbackData(price, monthly_rent) ==
    LET rent == IF Truthy(monthly_rent) THEN monthly_rent[1] ELSE price \div 100
        monthly_expenses == (rent * 40) \div 100
    IN  [monthly_rent |-> Some(rent),
         monthly_expenses |->
            [mortgage |-> (monthly_expenses * 40) \div 100,
             insurance |-> (monthly_expenses * 15) \div 100,
             taxes |-> (monthly_expenses * 25) \div 100,
             maintenance |-> (monthly_expenses * 15) \div 100,
             utilities |-> (monthly_expenses * 5) \div 100,
             management |-> (rent * 8) \div 100]]

ExpenseCategories ==
    {"mortgage", "insurance", "taxes", "maintenance", "utilities", "management"}

EmptyData ==
    [monthly_rent |-> None, monthly_expenses |-> [c \in ExpenseCategories |-> 0]]

AiData(outcome, price, monthly_rent) ==
    IF outcome = "fallback" THEN FallbackData(price, monthly_rent) ELSE EmptyData

Transaction(id, type, category, amount, date) ==
    [owned_property |-> id, transaction_type |-> type, category |-> category,
     amount |-> amount, date |-> date]

\* The transactions user_portfolio creates with a new property: for each of
\* the last six "months" (30 days apart) the rent and every expense above 0.
GeneratedTransactions(id, monthly_rent, ai_data, day) ==
    LET rent == Or(monthly_rent, ai_data.monthly_rent)
    IN  IF ~Truthy(rent) \/ rent[1] <= 0 THEN EmptyBag
        ELSE SetToBag(
            {Transaction(id, "income", "rent", rent[1], day - 30 * i) : i \in 0..5}
            \cup
            {Transaction(id, "expense", c, ai_data.monthly_expenses[c], day - 30 * i) :
                c \in {x \in ExpenseCategories : ai_data.monthly_expenses[x] > 0},
                i \in 0..5})

\* The transactions a user adds through rental_transactions.
ManualCategories == {"other_income", "other_expense"}
ByHand(txs) == {t \in BagToSet(txs) : t.category \in ManualCategories}
HandCount(txs) == SumFn([t \in ByHand(txs) |-> CopiesIn(t, txs)], ByHand(txs))

\* The dates a user gives a transaction: before, at the edge of and inside the
\* trailing year of day 0, and after day 0.
TransactionDates == {0 - 366, 0 - 365, 0, 1}
TransactionAmounts == {1200}
ManualTransactions(id) ==
    {Transaction(id, "income", "other_income", a, d) :
        a \in TransactionAmounts, d \in TransactionDates}
    \cup
    {Transaction(id, "expense", "other_expense", a, d) :
        a \in TransactionAmounts, d \in TransactionDates}

\* The transactions that stay when the ORM deletes the property row alone.
WithoutPropertyNoCascade(txs, id) == txs

\* on_delete=models.CASCADE: the transactions left when the property id goes
WithoutProperty(txs, id) ==
    LET S == {t \in BagToSet(txs) : t.owned_property # id}
    IN  [t \in S |-> CopiesIn(t, txs)]

InitPortfolio ==
    /\ DealsIdle
    /\ LoanIdle
    /\ MetricsIdle
    /\ PortIdle

portfolioFrame == <<loan, prop, valuations, metrics, calc, chart>>

\* user_portfolio, POST: the row is created, the rental data are generated
\* and their transactions created, and the metrics are recomputed.
AddProperty(row, monthly_rent, outcome) ==
    /\ \E id \in OwnedIds :
        /\ owned[id] = None
        /\ \A j \in OwnedIds : j < id => owned[j] # None
        /\ \E o \in {[owned EXCEPT ![id] = Some(row)]},
              txs \in {transactions (+)
                       GeneratedTransactions(id, monthly_rent,
                            AiData(outcome, row.purchase_price[1], monthly_rent),
                            clock)} :
            /\ owned' = o
            /\ transactions' = txs
            /\ portfolio' = Recomputed(o, txs)
    /\ UNCHANGED clock
    /\ UNCHANGED portfolioFrame
    /\ UNCHANGED dealVars

\* portfolio_property_detail, PUT with current_estimated_value in the body
UpdateProperty(id, value) ==
    /\ owned[id] # None
    /\ \E o \in {[owned EXCEPT ![id] = Some([owned[id][1] EXCEPT
                                              !.current_estimated_value = value])]} :
            /\ owned' = o
            /\ portfolio' = Recomputed(o, transactions)
    /\ UNCHANGED <<transactions, clock>>
    /\ UNCHANGED portfolioFrame
    /\ UNCHANGED dealVars

\* portfolio_property_detail, DELETE: the row goes, its transactions with it,
\* and the metrics are recomputed.
DeleteProperty(id) ==
    /\ owned[id] # None
    /\ \E o \in {[owned EXCEPT ![id] = None]},
          txs \in {WithoutProperty(transactions, id)} :
            /\ owned' = o
            /\ transactions' = txs
            /\ portfolio' = Recomputed(o, txs)
    /\ UNCHANGED clock
    /\ UNCHANGED portfolioFrame
    /\ UNCHANGED dealVars

\* rental_transactions, POST
AddTransaction(t) ==
    /\ owned[t.owned_property] # None
    /\ HandCount(transactions) < MaxTransactions
    /\ \E txs \in {transactions (+) SetToBag({t})} :
            /\ transactions' = txs
            /\ portfolio' = Recomputed(owned, txs)
    /\ UNCHANGED <<owned, clock>>
    /\ UNCHANGED portfolioFrame
    /\ UNCHANGED dealVars

\* rental_transaction_detail, PUT: the transaction old becomes new
UpdateTransaction(old, new) ==
    /\ old \in ByHand(transactions)
    /\ new.owned_property = old.owned_property
    /\ \E txs \in {(transactions (-) SetToBag({old})) (+) SetToBag({new})} :
            /\ transactions' = txs
            /\ portfolio' = Recomputed(owned, txs)
    /\ UNCHANGED <<owned, clock>>
    /\ UNCHANGED portfolioFrame
    /\ UNCHANGED dealVars

\* rental_transaction_detail, DELETE
DeleteTransaction(t) ==
    /\ t \in ByHand(transactions)
    /\ \E txs \in {transactions (-) SetToBag({t})} :
            /\ transactions' = txs
            /\ portfolio' = Recomputed(owned, txs)
    /\ UNCHANGED <<owned, clock>>
    /\ UNCHANGED portfolioFrame
    /\ UNCHANGED dealVars

\* portfolio_metrics, GET: "always recalculate"
GetMetrics ==
    /\ portfolio' = Recomputed(owned, transactions)
    /\ UNCHANGED <<owned, transactions, clock>>
    /\ UNCHANGED portfolioFrame
    /\ UNCHANGED dealVars

\* Midnight.
NextDay ==
    /\ clock < MaxDay
    /\ clock' = clock + 1
    /\ UNCHANGED <<owned, transactions, portfolio>>
    /\ UNCHANGED portfolioFrame
    /\ UNCHANGED dealVars

\* The values a PUT sets current_estimated_value to.
UpdatedValues == EstimatedValues

NextPortfolio ==
    \/ \E row \in OwnedRows, monthly_rent \in MonthlyRents, outcome \in AiOutcomes :
            AddProperty(row, monthly_rent, outcome)
    \/ \E id \in OwnedIds, value \in UpdatedValues : UpdateProperty(id, value)
    \/ \E id \in OwnedIds : DeleteProperty(id)
    \/ \E id \in OwnedIds : \E t \in ManualTransactions(id) : AddTransaction(t)
    \/ \E id \in OwnedIds : \E old, new \in ManualTransactions(id) :
            UpdateTransaction(old, new)
    \/ \E id \in OwnedIds : \E t \in ManualTransactions(id) : DeleteTransaction(t)
    \/ GetMetrics
    \/ NextDay

SpecPortfolio == InitPortfolio /\ [][NextPortfolio]_vars

\* ======================================= portfolio_performance_chart_data
\* date.today() for the chart: every month of two years, one of them a leap
\* year, early and late in the month.
ChartYears == {2024, 2025}
ChartDays == {1, 10, 15, 20, 28}
ChartDates == [year : ChartYears, month : 1..12, day : ChartDays]

IsLeap(y) == (y % 4 = 0 /\ y % 100 # 0) \/ y % 400 = 0
DaysInMonth(y, m) ==
    IF m = 2 THEN (IF IsLeap(y) THEN 29 ELSE 28)
    ELSE IF m \in {4, 6, 9, 11} THEN 30 ELSE 31

PreviousMonth(ym) ==
    IF ym.month = 1 THEN [year |-> ym.year - 1, month |-> 12]
    ELSE [year |-> ym.year, month |-> ym.month - 1]

\* (first - timedelta(days=n)).replace(day=1): the month of the date n days
\* before the first day of the month ym
RECURSIVE MonthBefore(_, _)
MonthBefore(ym, n) ==
    IF n = 0 THEN ym
    ELSE LET p == PreviousMonth(ym)
             len == DaysInMonth(p.year, p.month)
         IN  IF n <= len THEN p ELSE MonthBefore(p, n - len)

\* month_start = (date.today().replace(day=1) - timedelta(days=31*i)).replace(day=1)
month_start(date, i) ==
    MonthBefore([year |-> date.year, month |-> date.month], 31 * i)

\* month_start and month_end, the last day of the same month
MonthWindow(ym) ==
    [month_start |-> [year |-> ym.year, month |-> ym.month, day |-> 1],
     month_end |-> [year |-> ym.year, month |-> ym.month,
                    day |-> DaysInMonth(ym.year, ym.month)]]

\* The windows of cash_flow_data after cash_flow_data.reverse()
cash_flow_timeline(date) == [k \in 1..12 |-> MonthWindow(month_start(date, 12 - k))]

InitChart ==
    /\ DealsIdle
    /\ LoanIdle
    /\ MetricsIdle
    /\ PortIdle

\* portfolio_performance_chart_data on the day date
BuildChart(date) ==
    /\ chart' = Some([today |-> date, windows |-> cash_flow_timeline(date)])
    /\ UNCHANGED <<owned, transactions, portfolio, clock>>
    /\ UNCHANGED <<loan, prop, valuations, metrics, calc>>
    /\ UNCHANGED dealVars

NextChart == \E date \in ChartDates : BuildChart(date)

SpecChart == InitChart /\ [][NextChart]_vars

\* ===================================================================== claims
Served == last.status \in {200, 201}
Card(S) == Cardinality(S)

\* No two deals of one owner share a (stage, position).
UniquePositions(db) ==
    \A d, e \in Rows(db) :
        (d # e /\ db[d].owner = db[e].owner /\ db[d].stage = db[e].stage)
            => db[d].position # db[e].position

\* C1: after every create, move and delete from the empty pipeline, in every
\* stage the positions of every owner's deals are exactly 0..count-1.
C1_PositionsContiguous ==
    \A u \in Users, s \in Stages : Contiguous(deals, u, s)

\* C2: a created deal gets the largest position of its stage plus one, and
\* position 0 when the stage held no deal.
C2_CreateAtTail ==
    [][(last'.op = "create" /\ last'.status = 201) =>
        LET d == last'.deal
            s == deals'[d].stage
        IN  deals'[d].position =
                IF StageDeals(deals, s) = {} THEN 0
                ELSE SetMax(PositionsOf(deals, StageDeals(deals, s))) + 1]_vars

\* C3: deleting the deal at position p of a stage lowers by one the position
\* of every remaining deal of that owner and stage that was above p.
C3_DeleteCompacts ==
    [][(last'.op = "delete" /\ last'.status = 200) =>
        LET d == last'.deal
            row == deals[d]
        IN  \A e \in OwnedIn(deals, row.owner, row.stage) \ {d} :
                deals'[e].position =
                    IF deals[e].position > row.position
                    THEN deals[e].position - 1 ELSE deals[e].position]_vars

\* The request SpecMove, SpecTx follow, and the row it moves as it arrived.
TheMove == req[1]
Source == base[TheMove.id]
MoveDone == TheMove.pc = "done"
CrossStage == Source.stage # TheMove.stage
StartInOrder ==
    /\ Contiguous(base, TheMove.user, Source.stage)
    /\ Contiguous(base, TheMove.user, TheMove.stage)

\* C4: from stages in order, a move from place p of stage A to place t
\* (0 <= t <= number of the owner's deals in B) of another stage B lowers by
\* one every A deal that was above p, raises by one every B deal that was at
\* t or above, puts the moved deal at (B, t), and leaves both stages in order.
C4_CrossStageMove ==
    (MoveDone /\ CrossStage /\ StartInOrder
        /\ TheMove.pos \in 0..Card(OwnedIn(base, TheMove.user, TheMove.stage))) =>
    LET u == TheMove.user
        d == TheMove.id
        A == Source.stage
        B == TheMove.stage
    IN  /\ \A e \in OwnedIn(base, u, A) \ {d} :
              deals[e] = [base[e] EXCEPT !.position =
                            IF @ > Source.position THEN @ - 1 ELSE @]
        /\ \A e \in OwnedIn(base, u, B) :
              deals[e] = [base[e] EXCEPT !.position =
                            IF @ >= TheMove.pos THEN @ + 1 ELSE @]
        /\ deals[d] = [Source EXCEPT !.stage = B, !.position = TheMove.pos]
        /\ Card(OwnedIn(deals, u, A)) = Card(OwnedIn(base, u, A)) - 1
        /\ Card(OwnedIn(deals, u, B)) = Card(OwnedIn(base, u, B)) + 1
        /\ Contiguous(deals, u, A)
        /\ Contiguous(deals, u, B)

\* C4's case: a cross-stage move to a valid place that shifted a deal of the
\* source stage down and a deal of the target stage up.
C4_Witness ==
    /\ MoveDone /\ CrossStage /\ StartInOrder
    /\ TheMove.pos \in 0..Card(OwnedIn(base, TheMove.user, TheMove.stage))
    /\ \E e \in OwnedIn(base, TheMove.user, Source.stage) :
            base[e].position > Source.position /\ deals[e].position = base[e].position - 1
    /\ \E e \in OwnedIn(base, TheMove.user, TheMove.stage) :
            base[e].position >= TheMove.pos /\ deals[e].position = base[e].position + 1

\* C5: from a stage in order with N deals, a move inside the stage from place
\* p to place t (0 <= t <= N-1) lowers by one every other deal in (p, t] when
\* t > p, raises by one every other deal in [t, p) when t < p, puts the moved
\* deal at t and leaves the stage's positions 0..N-1; t = p changes nothing.
C5_SameStageMove ==
    (MoveDone /\ ~CrossStage /\ StartInOrder
        /\ TheMove.pos \in 0..(Card(OwnedIn(base, TheMove.user, TheMove.stage)) - 1)) =>
    LET u == TheMove.user
        d == TheMove.id
        S == TheMove.stage
        p == Source.position
        t == TheMove.pos
    IN  /\ \A e \in OwnedIn(base, u, S) \ {d} :
              deals[e] = [base[e] EXCEPT !.position =
                            IF p < t /\ @ > p /\ @ <= t THEN @ - 1
                            ELSE IF t < p /\ @ >= t /\ @ < p THEN @ + 1
                            ELSE @]
        /\ deals[d] = [Source EXCEPT !.position = t]
        /\ PositionsOf(deals, OwnedIn(deals, u, S)) =
                0..(Card(OwnedIn(base, u, S)) - 1)
        /\ Card(OwnedIn(deals, u, S)) = Card(OwnedIn(base, u, S))
        /\ t = p => deals = base

\* C5's case: a move inside a stage, to a valid other place, past at least
\* two deals, downwards.
C5_Witness ==
    /\ MoveDone /\ ~CrossStage /\ StartInOrder
    /\ TheMove.pos \in 0..(Card(OwnedIn(base, TheMove.user, TheMove.stage)) - 1)
    /\ TheMove.pos > Source.position + 1
    /\ Card({e \in OwnedIn(base, TheMove.user, TheMove.stage) :
                deals[e].position = base[e].position - 1}) >= 2

\* ------------------------------------------------- two requests in flight
BothDone == \A p \in Procs : req[p].pc = "done"

\* move_deal run alone on the table db.
MoveAlone(db, r) == MoveTx(db, r.user, r.id, db[r.id], r.stage, r.pos)

\* The request names a place the target stage has: 0 up to the number of the
\* owner's deals in it.
ValidTarget(r) == r.pos \in 0..Card(OwnedIn(base, r.user, r.stage))

\* C6: two move_deal requests of one user that run at once end with the
\* stages and positions that running them one after the other, in one of the
\* two orders, gives, and with no two deals at one place if none were before
\* (stated for requests that name a place their target stage has).
C6_MovesSerialize ==
    (BothDone /\ ValidTarget(req[1]) /\ ValidTarget(req[2])) =>
        /\ \/ deals = MoveAlone(MoveAlone(base, req[1]), req[2])
           \/ deals = MoveAlone(MoveAlone(base, req[2]), req[1])
        /\ UniquePositions(base) => UniquePositions(deals)

\* -------------------------------------------- one request, its statements
InBlock == lock # 0

\* C7: at no point of a move's update sequence (after the source shift, after
\* the target shift, after placing the deal) do two deals of one owner share
\* a (stage, position) (stated for a request that names a place its target
\* stage has, on a table where no two deals shared one).
C7_NoTransientCollision ==
    (InBlock /\ ValidTarget(TheMove) /\ UniquePositions(base)) =>
        UniquePositions(deals)

\* C8: move_deal is all or nothing: the committed table changes only by a
\* commit, which brings the whole move (both shifts and the placement), and
\* a request that failed leaves the committed table as it found it.
C8_MoveAllOrNothing ==
    /\ TheMove.pc \in {"start", "read", "cross", "src", "tgt", "same",
                       "shifted", "saved", "failed"} => Committed = base
    /\ TheMove.pc = "done" =>
            Committed = MoveTx(base, TheMove.user, TheMove.id, TheMove.deal,
                               TheMove.stage, TheMove.pos)

\* C8's case: a request failed after a shift had been written.
C8_Witness ==
    /\ TheMove.pc = "failed"
    /\ TheMove.dirty
    /\ deals = base

\* ---------------------------------------------------------- one at a time
\* C9: a move whose target position is negative or greater than the number of
\* deals the target stage would hold is rejected and changes no deal: every
\* move served with 200 names a position from 0 to that number, and a move
\* answered otherwise leaves the table as it was.
C9_BadPositionRejected ==
    [][(last'.op = "move") =>
        IF last'.status = 200
        THEN LET d == last'.deal
                 B == deals'[d].stage
                 n == Card(OwnedIn(deals', deals'[d].owner, B))
             IN  deals'[d].position >= 0 /\ deals'[d].position <= n
        ELSE deals' = deals]_vars

\* The rows of user u alone.
Own(db, u) == [d \in DealIds |-> IF db[d].owner = u THEN db[d] ELSE NoDeal]

\* The served request run on the table db.
Replay(db, was, now, r) ==
    IF r.op = "create"
    THEN InsertDeal(db, r.deal, r.user, now[r.deal].stage,
                    NewPosition(MaxPosition(db, now[r.deal].stage)))
    ELSE IF r.op = "delete" THEN DeleteDeal(db, r.deal)
    ELSE MoveTx(db, r.user, r.deal, db[r.deal], now[r.deal].stage, now[r.deal].position)

\* C10: a create, move or delete by user U leaves every other user's deal
\* where it was, and gives U's deals the stages and positions the same
\* request gives them when no other user holds a deal.
C10_NoCrossUserInterference ==
    [][(last'.status \in {200, 201}) =>
        LET u == last'.user IN
        /\ \A d \in Rows(deals) : deals[d].owner # u => deals'[d] = deals[d]
        /\ Own(deals', u) = Own(Replay(Own(deals, u), deals, deals', last'), u)]_vars

\* C11: a move_deal that names a deal that does not exist, a deal of another
\* user or a stage that does not exist, and a deal creation that names a
\* stage or a property that does not exist, is answered 404 or 400 and leaves
\* the set of deals and every deal's stage and position as they were.
C11_RejectedNoEffect ==
    /\ (/\ TheMove.pc = "answered"
         /\ \/ TheMove.id \notin Rows(base)
            \/ base[TheMove.id].owner # TheMove.user
            \/ TheMove.stage \notin Stages)
            => (last.op = "move" /\ last.status \in {400, 404} /\ deals = base)
    /\ (\/ TheMove.pc = "property"
         \/ (TheMove.pc = "stage" /\ TheMove.stage \notin Stages))
            => (last.op = "create" /\ last.status = 400 /\ deals = base)

\* C11's case: a move that named a deal of another user, and a stage that
\* exists, was answered.
C11_Witness ==
    /\ TheMove.pc = "answered"
    /\ TheMove.id \in Rows(base)
    /\ base[TheMove.id].owner # TheMove.user
    /\ TheMove.stage \in Stages
    /\ last.status = 404

\* ------------------------------------------------- remaining_loan_balance
\* The row whose balance was read, and the day of the reading.
BalanceRead == loan.today # None
LoanRow == loan.row[1]
\* Whole months from the purchase to the day of the reading, kept in
\* [0, n] for a loan of n monthly payments.
ElapsedOf(n) ==
    LET raw == MonthsBetween(LoanRow.purchase_date, loan.today[1])
    IN  IF raw < 0 THEN 0 ELSE IF raw > n THEN n ELSE raw

\* C12: for an interest rate of exactly 0, with a loan amount above 0 and a
\* term of n > 0 months there, the balance after k months is principal*(n-k)/n to
\* the cent, and reading it raises no exception.
C12_ZeroRateStraightLine ==
    (/\ BalanceRead
     /\ LoanRow.interest_rate = Some(0)
     /\ LoanRow.loan_amount # None /\ LoanRow.loan_amount # Some(0)
     /\ LoanRow.loan_term_years # None /\ LoanRow.loan_term_years # Some(0)) =>
    LET n == LoanRow.loan_term_years[1] * 12
        k == ElapsedOf(n)
    IN  /\ ~loan.balance.raised
        /\ loan.balance.value = Some(RoundDiv(LoanRow.loan_amount[1] * (n - k), n))

\* C13: the balance is None, never 0, whenever loan_amount, interest_rate
\* or loan_term_years is absent.
C13_AbsentGivesUnknown ==
    (/\ BalanceRead
     /\ \/ LoanRow.loan_amount = None
        \/ LoanRow.interest_rate = None
        \/ LoanRow.loan_term_years = None) =>
    (~loan.balance.raised /\ loan.balance.value = None)

\* C13's case: the balance of a row with an amount and a term but no interest
\* rate was read.
C13_Witness ==
    /\ BalanceRead
    /\ LoanRow.interest_rate = None
    /\ Truthy(LoanRow.loan_amount) /\ Truthy(LoanRow.loan_term_years)
    /\ loan.balance.value = None

\* C14: with a loan amount above 0, the rate and a term of n > 0 months
\* there, the months elapsed are the whole months from the purchase to the day of the
\* reading kept in [0, n] (0 for a purchase in the future), and the balance
\* is exactly 0.00 whenever they reach n.
C14_ElapsedClamped ==
    (/\ BalanceRead
     /\ LoanRow.loan_amount # None /\ LoanRow.loan_amount # Some(0)
     /\ LoanRow.interest_rate # None
     /\ LoanRow.loan_term_years # None /\ LoanRow.loan_term_years # Some(0)) =>
    LET n == LoanRow.loan_term_years[1] * 12
        k == ElapsedOf(n)
    IN  /\ loan.elapsed # None => loan.elapsed = Some(k)
        /\ k >= n => (~loan.balance.raised /\ loan.balance.value = Some(0))

\* ----------------------------------------------------- calculate_metrics
\* calculate_metrics ran; the property and the row it left.
Ran == calc.done
Prop == prop[1]
Row == metrics[1]
\* Price and rent are there and not zero: the run went past its first test.
Computed == Ran /\ ~calc.raised /\ Truthy(Prop.current_price) /\ Truthy(Prop.estimated_rent)
\* NOI / price * 100 of the property as it is
BasicRoi ==
    RMul(RDiv(RMul(RInt(Prop.estimated_rent[1] * 12), Rat(70, 100)),
              RInt(Prop.current_price[1])), RInt(100))

\* C16: computing the metrics of a property whose price is set and whose
\* estimated rent is null raises no exception and leaves an InvestmentMetrics
\* row with every metric field null.
C16_NoRentAllNull ==
    (Ran /\ Prop.current_price # None /\ Prop.estimated_rent = None) =>
        (~calc.raised /\ metrics = Some(BlankMetrics))

\* C16's case: the metrics of a property with a price and no rent were
\* computed, and the row is there.
C16_Witness ==
    /\ Ran /\ Truthy(Prop.current_price) /\ Prop.estimated_rent = None
    /\ metrics # None
    /\ \A f \in MetricFields : Row[f] = None

\* The five components have their inputs.
AllFive ==
    /\ TruthyR(Row.cap_rate)
    /\ TruthyR(Row.net_operating_income) /\ Truthy(Prop.current_price)
    /\ TruthyR(Row.estimated_profit)
    /\ TruthyR(Row.price_to_rent_ratio)
    /\ TruthyR(Row.risk_score)

\* C17: when all five components are there the score lies in [0, 100]: each
\* of the cap-rate, cash-flow, appreciation and market-efficiency components
\* lies in [0, 100] before its weight, risk_score lies in [1, 10], and the
\* weights 0.40, 0.25, 0.20, 0.10, 0.05 sum to 1.
C17_ScoreInRange ==
    (Computed /\ AllFive) =>
    LET c == ScoreComponents(Row, Prop) IN
    /\ RLeq(RInt(0), Row.investment_score[1])
    /\ RLeq(Row.investment_score[1], RInt(100))
    /\ RLeq(RInt(0), c.cap_rate[1]) /\ RLeq(c.cap_rate[1], RInt(40))
    /\ RLeq(RInt(0), c.cashflow[1]) /\ RLeq(c.cashflow[1], RInt(25))
    /\ RLeq(RInt(0), c.appreciation[1]) /\ RLeq(c.appreciation[1], RInt(20))
    /\ RLeq(RInt(0), c.efficiency[1]) /\ RLeq(c.efficiency[1], RInt(10))
    /\ RLeq(RInt(1), Row.risk_score[1]) /\ RLeq(Row.risk_score[1], RInt(10))
    /\ RAdd(RAdd(RAdd(Rat(40, 100), Rat(25, 100)), RAdd(Rat(20, 100), Rat(10, 100))),
            Rat(5, 100)) = RInt(1)

\* C17's case: all five components are there and the cap-rate, cash-flow,
\* appreciation and market-efficiency components are all cut at 100: the
\* score is 99.5.
C17_Witness ==
    /\ Computed /\ AllFive
    /\ Row.investment_score = Some(Rat(199, 2))

\* The sum of the components whose inputs are there, each times its weight,
\* the weights as they are.
WeightedSum ==
    LET part(there, x, w) == IF there THEN RMul(x, Rat(w, 100)) ELSE RInt(0)
        price == RInt(Prop.current_price[1])
    IN  RAdd(RAdd(RAdd(
            part(Row.cap_rate # None,
                 Clamp(0, RMul(Row.cap_rate[1], RInt(10)), 100), 40),
            part(Row.net_operating_income # None,
                 Clamp(0, RDiv(Row.net_operating_income[1], RInt(1200)), 100), 25)),
          RAdd(
            part(Row.estimated_profit # None,
                 Clamp(0, RMul(RDiv(Row.estimated_profit[1], price), RInt(200)), 100), 20),
            part(Row.price_to_rent_ratio # None,
                 Clamp(0, RSub(RInt(200), RMul(Row.price_to_rent_ratio[1], RInt(10))),
                       100), 10))),
            part(Row.risk_score # None,
                 RMul(RSub(RInt(10), Row.risk_score[1]), RInt(10)), 5))

\* price = 200000 and monthly rent = 2000 with no profit data.
Example18 ==
    /\ Computed
    /\ Prop.current_price = Some(200000) /\ Prop.estimated_rent = Some(2000)
    /\ Row.estimated_profit = None

\* C18: the score is the sum of component*weight over the components whose
\* inputs are there, the weights not renormalised; for price = 200000 and
\* monthly rent = 2000 with no profit data the cap-rate, cash-flow,
\* market-efficiency and risk components count and the appreciation
\* component does not (33.6 + 3.5 + 10 + 4.5 = 51.6).
C18_ScoreIsWeightedSum ==
    /\ Computed => Row.investment_score = Some(WeightedSum)
    /\ Example18 =>
        /\ Present(ScoreComponents(Row, Prop)) = ComponentNames \ {"appreciation"}
        /\ Row.investment_score = Some(Rat(258, 5))

\* C18's case: the example, computed.
C18_Witness ==
    /\ Example18
    /\ Row.investment_score = Some(Rat(258, 5))

\* C19: roi is the five-year ROI of the most recent successful valuation that
\* has one, divided by 5; when the property has no such valuation, roi is
\* NOI / price * 100.
C19_RoiFromLatestValuation ==
    (Computed /\ ~calc.fails) =>
        Row.roi = IF Qualifying(valuations) # {}
                  THEN Some(Rat(LatestValuation(valuations).five_year_roi_percent[1], 5))
                  ELSE Some(BasicRoi)

\* The profit predictor gave nothing: it raised, or returned None.
NoPrediction == calc.predicted.raised \/ calc.predicted.value = None

\* The metrics that come from price and rent alone are as usual.
UsualMetrics ==
    LET price == RInt(Prop.current_price[1])
        annual == RInt(Prop.estimated_rent[1] * 12)
    IN  /\ Row.gross_rental_yield = Some(RMul(RDiv(annual, price), RInt(100)))
        /\ Row.net_operating_income = Some(RMul(annual, Rat(70, 100)))
        /\ Row.cap_rate = Some(BasicRoi)
        /\ Row.price_to_rent_ratio = Some(RDiv(price, annual))
        /\ Row.risk_score = Some(Clamp(1, RDiv(RDiv(price, annual), RInt(10)), 10))
        /\ Row.investment_score = Some(WeightedSum)

\* C20 as stated: when the profit predictor or the valuation query gives
\* nothing or raises, calculate_metrics ends without error, estimated_profit
\* is estimated_value - price when both are there (not null), roi is
\* NOI / price * 100 when the valuation query raised, and the other metrics
\* are as usual.
C20_Original ==
    (Ran /\ Truthy(Prop.current_price) /\ Truthy(Prop.estimated_rent)
         /\ (NoPrediction \/ calc.fails)) =>
    /\ ~calc.raised
    /\ (NoPrediction /\ Prop.estimated_value # None) =>
            Row.estimated_profit =
                Some(RInt(Prop.estimated_value[1] - Prop.current_price[1]))
    /\ calc.fails => Row.roi = Some(BasicRoi)
    /\ UsualMetrics

\* C20 amended: as C20, with estimated_profit = estimated_value - price when
\* both are there and not zero.
C20_FallbacksOnFailure ==
    (Ran /\ Truthy(Prop.current_price) /\ Truthy(Prop.estimated_rent)
         /\ (NoPrediction \/ calc.fails)) =>
    /\ ~calc.raised
    /\ (NoPrediction /\ Truthy(Prop.estimated_value)) =>
            Row.estimated_profit =
                Some(RInt(Prop.estimated_value[1] - Prop.current_price[1]))
    /\ calc.fails => Row.roi = Some(BasicRoi)
    /\ UsualMetrics

\* C20's case: the predictor raised and the valuation query raised, on a
\* property with a price, a rent and an estimated value, with a valuation
\* that has an ROI; both fallbacks were taken.
C20_Witness ==
    /\ Computed
    /\ calc.predicted.raised /\ calc.fails
    /\ Truthy(Prop.estimated_value)
    /\ Qualifying(valuations) # {}
    /\ Row.estimated_profit = Some(RInt(Prop.estimated_value[1] - Prop.current_price[1]))
    /\ Row.roi = Some(BasicRoi)

\* The row calculate_metrics gives on a row with every field null, for the
\* property and the valuations as they are and what the sources gave last.
Derived ==
    calculate_metrics(BlankMetrics, Prop, valuations, calc.predicted, calc.fails).value

\* C15: after any sequence of syncs, valuations and recomputations every field
\* of the InvestmentMetrics row is null or the value derived from the
\* property's price, rent and estimated value as they are and the latest
\* qualifying valuation; no field keeps a value computed from earlier inputs.
C15_NoStaleField ==
    (metrics # None /\ prop # None) =>
        \A f \in MetricFields : Row[f] = None \/ Row[f] = Derived[f]

\* ------------------------------------------------------- rent and returns
\* Monthly rents to compare the rent of the property with.
RentSteps == {1, 1999, 2000, 2001, 2400, 19999, 20000, 24000}

\* The fields calculate_metrics assigns, before the score, for the property
\* with the monthly rent r in place of its own, everything else as it is.
WithRent(r) ==
    LET q == [Prop EXCEPT !.estimated_rent = Some(r)]
    IN  Assigned(BlankMetrics, q, valuations, calc.predicted, calc.fails, Basics(q))

\* The cap-rate component before its weight.
CapScoreOf(m) == CapRateScore(m.cap_rate[1])

\* C21: with the price fixed and positive, a higher monthly rent never gives a
\* lower gross_rental_yield, cap_rate or cap-rate score min(100, max(0,
\* cap_rate * 10)).
C21_RentMonotone ==
    Computed =>
        \A r \in RentSteps :
            LET lo == IF r < Prop.estimated_rent[1] THEN WithRent(r) ELSE Row
                hi == IF r < Prop.estimated_rent[1] THEN Row ELSE WithRent(r)
            IN  /\ RLeq(lo.gross_rental_yield[1], hi.gross_rental_yield[1])
                /\ RLeq(lo.cap_rate[1], hi.cap_rate[1])
                /\ RLeq(CapScoreOf(lo), CapScoreOf(hi))

\* C21's case: metrics were computed, a higher rent gives a strictly higher
\* yield and cap rate, and the score is already cut at 100 so that it stays.
C21_Witness ==
    /\ Computed
    /\ \E r \in RentSteps :
            /\ r > Prop.estimated_rent[1]
            /\ RLess(Row.gross_rental_yield[1], WithRent(r).gross_rental_yield[1])
            /\ RLess(Row.cap_rate[1], WithRent(r).cap_rate[1])
            /\ CapScoreOf(Row) = RInt(100) /\ CapScoreOf(WithRent(r)) = RInt(100)

\* ------------------------------------------------------ PortfolioMetrics
\* The PortfolioMetrics row, and a recompute that ran on the day it is.
Folio == portfolio[1]
JustComputed == portfolio # None /\ Folio.calculated_at = RInt(clock)

\* C22: whenever the user has no UserOwnedProperty row, also after all of
\* them were deleted, the recomputed PortfolioMetrics row has 0 in every
\* numeric field.
C22_EmptyAllZero ==
    (portfolio # None /\ OwnedOf(owned) = {}) =>
        \A f \in PortfolioFields : Folio[f] = RInt(0)

\* The row a recompute gives on a new row: a function of the owned
\* properties and transactions as they are, 0 where a denominator is 0.
FromCurrentRows == PortfolioCalc(BlankPortfolio, owned, transactions, clock)

\* C23: after any sequence of additions, updates and deletions the row a
\* recompute stored depends only on the UserOwnedProperty and
\* RentalTransaction rows as they are (a metric with a zero denominator being
\* 0), not on what the row held before.
C23_FullyRecomputed ==
    JustComputed => Folio = FromCurrentRows

\* income minus expense over the transactions dated from day - 365 to day
CashFlowBetween(txs, from, to) ==
    LET In(type) == {t \in BagToSet(txs) :
                        t.transaction_type = type /\ t.date >= from /\ t.date <= to}
        Sum(type) == SumFn([t \in In(type) |-> CopiesIn(t, txs) * t.amount], In(type))
    IN  Sum("income") - Sum("expense")

\* C24: annual_cash_flow counts the transactions dated in the trailing 365
\* days up to and including today, income minus expense; a transaction dated
\* before that or after today does not count.
C24_TrailingYear ==
    JustComputed =>
        Folio.annual_cash_flow = RInt(CashFlowBetween(transactions, clock - 365, clock))

\* The property has loan data: remaining_loan_balance gives a balance.
HasLoanData(row) == AllTruthy(row)

\* Current value minus remaining balance, the full current value only
\* without loan data.
Equity25(row) ==
    IF HasLoanData(row) THEN CurrentValue(row) - BalanceOn(row, clock)[1]
    ELSE CurrentValue(row)

\* C25: in the rollup the equity of a property is its current value minus
\* its remaining loan balance, the full current value being taken only for a
\* property without loan data; total_equity is the sum of these.
C25_EquityRollup ==
    JustComputed =>
        Folio.total_equity =
            RInt(SumFn([i \in OwnedOf(owned) |-> Equity25(owned[i][1])], OwnedOf(owned)))

\* The transactions of the properties that are there.
OfOwned(txs) ==
    LET S == {t \in BagToSet(txs) : owned[t.owned_property] # None}
    IN  [t \in S |-> CopiesIn(t, txs)]

\* C26: deleting a UserOwnedProperty deletes its transactions, and the
\* recompute that follows counts no income or expense of it: no transaction
\* of a property that is gone is left, and the cash-flow sums of the row are
\* those of the transactions of the properties that are there.
C26_CascadeThenRecompute ==
    /\ \A t \in BagToSet(transactions) : owned[t.owned_property] # None
    /\ JustComputed =>
        /\ Folio.total_monthly_income = Rat(Recent(OfOwned(transactions), "income", clock), 12)
        /\ Folio.total_monthly_expenses =
                Rat(Recent(OfOwned(transactions), "expense", clock), 12)
        /\ Folio.annual_cash_flow =
                RInt(Recent(OfOwned(transactions), "income", clock)
                     - Recent(OfOwned(transactions), "expense", clock))
        /\ Folio.monthly_cash_flow =
                Rat(Recent(OfOwned(transactions), "income", clock)
                    - Recent(OfOwned(transactions), "expense", clock), 12)

\* C26's case: the last property was deleted while it had transactions (the
\* return on cash computed before is still in the row); no transaction is
\* left and the recompute counts no income and no expense.
C26_Witness ==
    /\ JustComputed
    /\ OwnedOf(owned) = {}
    /\ Folio.cash_on_cash_return # RInt(0)
    /\ transactions = EmptyBag
    /\ Folio.total_monthly_income = RInt(0) /\ Folio.total_monthly_expenses = RInt(0)
    /\ Folio.annual_cash_flow = RInt(0)

\* ------------------------------------------------------------ the chart
\* The calendar month n months before the month ym.
MonthsBack(ym, n) ==
    LET k == ym.year * 12 + (ym.month - 1) - n
    IN  [year |-> k \div 12, month |-> (k % 12) + 1]

ChartMonth == [year |-> chart[1].today.year, month |-> chart[1].today.month]

\* C30: whatever the day, the 12 windows of the cash-flow timeline are 12
\* distinct consecutive calendar months that end with the month of the day,
\* so that a transaction of the last 12 calendar months is in exactly one.
C30_TwelveMonths ==
    chart # None =>
        \A k \in 1..12 :
            chart[1].windows[k] = MonthWindow(MonthsBack(ChartMonth, 12 - k))

\* ------------------------------------------------------------------- C27
\* C27: after any sequence of create, move (with any integer target position)
\* and delete requests served one at a time, no two deals of one owner share
\* a (stage, position), whether or not the positions are contiguous.
C27_NoSharedPosition == UniquePositions(deals)

\* C27's case: a served move to a target outside 0..count left one owner
\* with two deals of one stage at places that are not next to each other.
C27_Witness ==
    /\ last.op = "move" /\ last.status = 200
    /\ \E d, e \in Rows(deals) :
        /\ d # e
        /\ deals[d].owner = deals[e].owner /\ deals[d].stage = deals[e].stage
        /\ deals[d].position < 0
        /\ deals[e].position - deals[d].position >= 3

\* ------------------------------------------------------------------- C28
\* Both workers have answered 201 to a request into the same stage.
BothCreated ==
    /\ \A p \in Procs : req[p].pc = "created"
    /\ req[1].stage = req[2].stage

\* C28: two create-deal requests into the same stage that run at the same
\* time receive distinct positions.
C28_DistinctPositions ==
    BothCreated => deals[req[1].id].position # deals[req[2].id].position

\* ------------------------------------------------------------------- C29
\* The request served last is a move, and base is the table it found.
JustMoved ==
    /\ last.op = "move" /\ last.status = 200
    /\ TheMove.pc = "done" /\ TheMove.id = last.deal

\* The owner's deals of stage s other than the moved one, as the move found
\* them.
OthersIn(s) == OwnedIn(base, TheMove.user, s) \ {TheMove.id}

\* Deals e and f stand in the same order by position before and after.
SameOrder(e, f) ==
    (base[e].position < base[f].position) = (deals[e].position < deals[f].position)

C29_OtherStage ==
    /\ JustMoved
    /\ ~CrossStage
    /\ \E e \in Rows(base) : base[e].owner = TheMove.user /\ base[e].stage # TheMove.stage
    /\ \E e \in OthersIn(TheMove.stage) : deals[e].position # base[e].position

====
